---- MODULE Spec2Model ----
(***************************************************************************)
(* sagequeue-progress.py: one run of main().  analyze_job() rebuilds the   *)
(* JobProgress from the per-offset state files (canonical) and the         *)
(* per-offset logs (timing only); print_progress() computes the ETA, then  *)
(* replays the logs to attribute DONE lines to systemd worker ids and      *)
(* compares the log-derived count with the state-file count.               *)
(*                                                                         *)
(* Optional[int] values are modelled as sequences: None is << >> and the   *)
(* integer v is << v >>.  A text is a sequence of one-character strings.   *)
(* A log line is modelled by what the four regular expressions and the     *)
(* parsers see in it (see PlainLine below).                                *)
(***************************************************************************)
EXTENDS Integers, Sequences, FiniteSets, TLC

VARIABLES
    pc,                     \* position in main(): see the actions
    n_vertices,             \* args.n / get_n_vertices(graph)
    rank,                   \* args.rank
    stride,                 \* args.stride
    state_files,            \* offset -> state file on disk
    logs,                   \* offset -> log file on disk
    log_max_lines,          \* args.log_max_lines
    show_worker_breakdown,  \* not args.no_worker_breakdown
    progress,               \* the JobProgress analyze_job returned
    eta,                    \* the ETA line print_progress printed, if any
    per_worker,             \* worker_case_breakdown_from_logs: wid -> set of gidx
    all_gidx,               \* worker_case_breakdown_from_logs: set of gidx
    w_idx,                  \* worker_case_breakdown_from_logs: index of `w` in progress.workers
    lines,                  \* worker_case_breakdown_from_logs: the tail being replayed
    line_idx,               \* worker_case_breakdown_from_logs: lines already replayed
    current_wid,            \* worker_case_breakdown_from_logs: Optional[int]
    note                    \* print_progress: the NOTE of the sanity check was printed

vars == <<pc, n_vertices, rank, stride, state_files, logs, log_max_lines,
          show_worker_breakdown, progress, eta, per_worker, all_gidx, w_idx,
          lines, line_idx, current_wid, note>>

inputs == <<n_vertices, rank, stride, state_files, logs, log_max_lines,
            show_worker_breakdown>>

---------------------------------------------------------------------------
(* Bounds of the model. *)

MaxN == 4
MaxStride == 3
MaxGidx == 4
MaxFileLen == 3
MaxLogLen == 3
MaxRestLogLen == 1

(* Program constants. *)

RecentWindow == 50
DefaultLogMaxLines == 2000

---------------------------------------------------------------------------
(* Python values. *)

None == << >>
Some(v) == << v >>

Min(a, b) == IF a < b THEN a ELSE b
Max(a, b) == IF a > b THEN a ELSE b

\* seq[-n:]
PyLast(seq, n) ==
    LET start == IF 0 - n < 0 THEN Max(Len(seq) - n, 0) ELSE Min(0 - n, Len(seq))
    IN  SubSeq(seq, start + 1, Len(seq))

RECURSIVE SumSeq(_)
SumSeq(s) == IF s = << >> THEN 0 ELSE Head(s) + SumSeq(Tail(s))

RECURSIVE MaxSeq(_)
\* max() of a non-empty sequence
MaxSeq(s) == IF Len(s) = 1 THEN Head(s) ELSE Max(Head(s), MaxSeq(Tail(s)))

RECURSIVE Concat(_)
Concat(ss) == IF ss = << >> THEN << >> ELSE Head(ss) \o Concat(Tail(ss))

---------------------------------------------------------------------------
(* Texts: str.strip(), str.split()[0], int(). *)

Digits == <<"0", "1", "2", "3", "4", "5", "6", "7", "8", "9">>
DigitChars == {Digits[i] : i \in 1..10}
DigitVal(c) == (CHOOSE i \in 1..10 : Digits[i] = c) - 1
IsSpace(c) == c = " "

RECURSIVE LStrip(_)
LStrip(t) == IF t # << >> /\ IsSpace(Head(t)) THEN LStrip(Tail(t)) ELSE t

RECURSIVE RStrip(_)
RStrip(t) ==
    IF t # << >> /\ IsSpace(t[Len(t)]) THEN RStrip(SubSeq(t, 1, Len(t) - 1)) ELSE t

Strip(t) == RStrip(LStrip(t))

RECURSIVE TakeToken(_)
\* the characters of t up to the first whitespace
TakeToken(t) ==
    IF t = << >> \/ IsSpace(Head(t)) THEN << >> ELSE <<Head(t)>> \o TakeToken(Tail(t))

RECURSIVE DropToken(_)
DropToken(t) == IF t = << >> \/ IsSpace(Head(t)) THEN t ELSE DropToken(Tail(t))

RECURSIVE Split(_)
\* str.split(): the whitespace-delimited tokens
Split(t) ==
    LET s == LStrip(t)
    IN  IF s = << >> THEN << >> ELSE <<TakeToken(s)>> \o Split(DropToken(s))

RECURSIVE DigitsValue(_, _)
DigitsValue(acc, t) ==
    IF t = << >> THEN acc ELSE DigitsValue(10 * acc + DigitVal(Head(t)), Tail(t))

\* int(tok): [ok |-> FALSE] stands for ValueError
PyInt(tok) ==
    LET signed == tok # << >> /\ Head(tok) \in {"+", "-"}
        body == IF signed THEN Tail(tok) ELSE tok
    IN  IF body = << >> \/ \E i \in 1..Len(body) : body[i] \notin DigitChars
        THEN [ok |-> FALSE, val |-> 0]
        ELSE [ok |-> TRUE,
              val |-> IF signed /\ Head(tok) = "-"
                      THEN 0 - DigitsValue(0, body) ELSE DigitsValue(0, body)]

RECURSIVE NatStr(_)
NatStr(n) == IF n < 10 THEN <<Digits[n + 1]>> ELSE NatStr(n \div 10) \o <<Digits[(n % 10) + 1]>>

\* str(i), as the worker writes its last DONE gidx
Str(i) == IF i < 0 THEN <<"-">> \o NatStr(0 - i) ELSE NatStr(i)

---------------------------------------------------------------------------
(* Files. *)

MissingFile == [exists |-> FALSE, readable |-> FALSE, text |-> << >>]
UnreadableFile == [exists |-> TRUE, readable |-> FALSE, text |-> << >>]
TextFile(t) == [exists |-> TRUE, readable |-> TRUE, text |-> t]

parse_state_file_last_token(f) ==
    IF ~f.exists THEN None
    ELSE IF ~f.readable THEN None
    ELSE LET text == Strip(f.text)
         IN  IF text = << >> THEN None
             ELSE LET toks == Split(text)
                      r == PyInt(toks[Len(toks)])
                  IN  IF r.ok THEN Some(r.val) ELSE None

parse_state_file(f) ==
    IF ~f.exists THEN None
    ELSE IF ~f.readable THEN None
    ELSE LET text == Strip(f.text)
         IN  IF text = << >> THEN None
             ELSE LET r == PyInt(Split(text)[1])
                  IN  IF r.ok THEN Some(r.val) ELSE None

---------------------------------------------------------------------------
(* Log lines.  A line is what the code can see in it:                      *)
(*   wstart  Some(wid) when _WORKER_START_RE matches "[worker wid] start   *)
(*           offset=..." at the start of the line, else None;              *)
(*   wdone   _WORKER_DONE_RE matches "[worker N] done|failed offset=...";  *)
(*   done    Some(gidx) when _DONE_RE finds "[ts] DONE ... gidx= ... dt=   *)
(*           ...s" anywhere in the line, else None;                        *)
(*   ts      the bracketed timestamp _TS_BRACKET_RE finds (0: none);       *)
(*   tsok    datetime.fromisoformat accepts that timestamp;                *)
(*   dt      the duration of the DONE match, in seconds.                   *)
(* The two worker patterns are anchored and exclude each other; _DONE_RE   *)
(* is searched, so a line may carry a worker marker and a DONE record.     *)

PlainLine ==
    [wstart |-> None, wdone |-> FALSE, done |-> None, ts |-> 0, tsok |-> FALSE, dt |-> 0]
StampLine(t) == [PlainLine EXCEPT !.ts = t, !.tsok = TRUE]
StartLine(w) == [PlainLine EXCEPT !.wstart = Some(w)]
WDoneLine == [PlainLine EXCEPT !.wdone = TRUE]
DoneLine(t, g) == [PlainLine EXCEPT !.done = Some(g), !.ts = t, !.tsok = TRUE, !.dt = 2]
BadDoneLine(t, g) == [DoneLine(t, g) EXCEPT !.tsok = FALSE]
StartDoneLine(w, t, g) == [DoneLine(t, g) EXCEPT !.wstart = Some(w)]
WDoneDoneLine(t, g) == [DoneLine(t, g) EXCEPT !.wdone = TRUE]

MissingLog == [exists |-> FALSE, readable |-> FALSE, lines |-> << >>]
UnreadableLog == [exists |-> TRUE, readable |-> FALSE, lines |-> << >>]
LogFile(ls) == [exists |-> TRUE, readable |-> TRUE, lines |-> ls]

\* path.read_text(errors="replace").splitlines()[-max_lines:]
ReadTail(f, max_lines) == PyLast(f.lines, max_lines)

RECURSIVE DoneTimes(_)
\* the loop of parse_log_times over the lines it read
DoneTimes(ls) ==
    IF ls = << >> THEN << >>
    ELSE LET line == Head(ls)
         IN  IF line.done = None THEN DoneTimes(Tail(ls))
             ELSE IF ~line.tsok THEN DoneTimes(Tail(ls))
             ELSE <<[ts |-> line.ts, dt |-> line.dt]>> \o DoneTimes(Tail(ls))

parse_log_times(f, max_lines) ==
    IF ~f.exists THEN << >>
    ELSE IF ~f.readable THEN << >>
    ELSE DoneTimes(ReadTail(f, max_lines))

RECURSIVE LastStamp(_)
\* the loop of get_last_activity over reversed(lines)
LastStamp(ls) ==
    IF ls = << >> THEN None
    ELSE LET line == ls[Len(ls)]
         IN  IF line.ts = 0 THEN LastStamp(SubSeq(ls, 1, Len(ls) - 1))
             ELSE IF ~line.tsok THEN LastStamp(SubSeq(ls, 1, Len(ls) - 1))
             ELSE Some(line.ts)

get_last_activity(f, max_lines) ==
    IF ~f.exists THEN None
    ELSE IF ~f.readable THEN None
    ELSE LastStamp(ReadTail(f, max_lines))

---------------------------------------------------------------------------
(* Sizes. *)

RECURSIVE Comb(_, _)
\* math.comb(n, k) for n >= 0, k >= 0
Comb(n, k) ==
    IF k > n THEN 0
    ELSE IF k = 0 THEN 1
    ELSE (Comb(n - 1, k - 1) * n) \div k

\* math.comb raises ValueError
CombRaises(n, k) == n < 0 \/ k < 0

RECURSIVE CountLoop(_, _, _, _)
CountLoop(count, gidx, stride_, total) ==
    IF gidx < total THEN CountLoop(count + 1, gidx + stride_, stride_, total) ELSE count

cases_for_offset_short(offset, stride_, total) == CountLoop(0, offset + stride_, stride_, total)

cases_for_offset(offset, stride_, total) == CountLoop(0, offset, stride_, total)

cases_done_for_offset_no_div(last_gidx, offset, stride_) ==
    IF last_gidx = None THEN 0
    ELSE IF last_gidx[1] < offset THEN 0
    ELSE IF ((last_gidx[1] - offset) % stride_) # 0 THEN 0
    ELSE (last_gidx[1] - offset) + 1

cases_done_for_offset_no_residue(last_gidx, offset, stride_) ==
    IF last_gidx = None THEN 0
    ELSE IF last_gidx[1] < offset THEN 0
    ELSE ((last_gidx[1] - offset) \div stride_) + 1

cases_done_for_offset(last_gidx, offset, stride_) ==
    IF last_gidx = None THEN 0
    ELSE IF last_gidx[1] < offset THEN 0
    ELSE IF ((last_gidx[1] - offset) % stride_) # 0 THEN 0
    ELSE ((last_gidx[1] - offset) \div stride_) + 1

---------------------------------------------------------------------------
(* JobProgress. *)

NoProgress == [dim |-> 0, kdim |-> 0, total_cases |-> 0, stride |-> 0, workers |-> << >>]

cases_done(p) == SumSeq([i \in 1..Len(p.workers) |-> p.workers[i].cases_done])

cases_remaining(p) == Max(0, p.total_cases - cases_done(p))

status_of_no_total_guard(done_, total, last_gidx) ==
    IF done_ >= total THEN "completed"
    ELSE IF done_ = 0 /\ last_gidx = None THEN "not_started"
    ELSE "running"

\* the status heuristic of analyze_job
status_of(done_, total, last_gidx) ==
    IF done_ >= total /\ total > 0 THEN "completed"
    ELSE IF done_ = 0 /\ last_gidx = None THEN "not_started"
    ELSE "running"

\* one iteration of analyze_job's loop: the WorkerState of `offset`
worker_state(offset, stride_, total_cases, state_file, log_file, max_lines) ==
    LET last_gidx == parse_state_file(state_file)
        total == cases_for_offset(offset, stride_, total_cases)
        done_ == cases_done_for_offset(last_gidx, offset, stride_)
        times == parse_log_times(log_file, max_lines)
        recent == PyLast(times, RecentWindow)
    IN  [offset |-> offset,
         stride |-> stride_,
         last_gidx |-> last_gidx,
         cases_done |-> done_,
         cases_total |-> total,
         last_timestamp |-> get_last_activity(log_file, max_lines),
         recent_times |-> [i \in 1..Len(recent) |-> recent[i].dt],
         status |-> status_of(done_, total, last_gidx)]

\* analyze_job when math.comb does not raise
job_progress(n, r, stride_, sfiles, lfiles, max_lines) ==
    LET dim == n - 1
        kdim == dim - r
        total_cases == Comb(dim, kdim)
    IN  [dim |-> dim, kdim |-> kdim, total_cases |-> total_cases, stride |-> stride_,
         workers |-> [i \in 1..stride_ |->
                        worker_state(i - 1, stride_, total_cases,
                                     sfiles[i - 1], lfiles[i - 1], max_lines)]]

---------------------------------------------------------------------------
(* print_progress: the ETA line and the sanity check. *)

NoEta == [shown |-> FALSE, max_remaining |-> 0, samples |-> 0]

all_times_of(p) == Concat([i \in 1..Len(p.workers) |-> p.workers[i].recent_times])

eta_of_any_samples(p) ==
    IF all_times_of(p) # << >>
    THEN [shown |-> TRUE,
          max_remaining |->
              MaxSeq([i \in 1..Len(p.workers) |->
                        p.workers[i].cases_total - p.workers[i].cases_done]),
          samples |-> Len(all_times_of(p))]
    ELSE NoEta

\* "ETA (only if we have dt samples)"
eta_of(p) ==
    IF all_times_of(p) # << >> /\ cases_remaining(p) > 0
    THEN [shown |-> TRUE,
          max_remaining |->
              MaxSeq([i \in 1..Len(p.workers) |->
                        p.workers[i].cases_total - p.workers[i].cases_done]),
          samples |-> Len(all_times_of(p))]
    ELSE NoEta

sanity_note_unguarded(p, gset) == Cardinality(gset) # cases_done(p)

\* the NOTE of the sanity check is printed
sanity_note(p, gset) == gset # {} /\ Cardinality(gset) # cases_done(p)

\* per_worker.setdefault(wid, set()).add(gidx)
setdefault_add(pw, wid, gidx) ==
    IF wid \in DOMAIN pw THEN [pw EXCEPT ![wid] = @ \cup {gidx}]
    ELSE pw @@ (wid :> {gidx})

---------------------------------------------------------------------------
(* The files and arguments a run can find. *)

BoundedSeq(S, n) == UNION {[1..k -> S] : k \in 0..n}

\* a missing state file, and state files holding one integer
CkptChoices == {MissingFile} \cup {TextFile(Str(i)) : i \in (0 - 1)..MaxGidx}

\* state files of any content
FileChars == {" ", "-", "+", "0", "7", "x"}
AnyCkpt == {MissingFile, UnreadableFile} \cup {TextFile(t) : t \in BoundedSeq(FileChars, MaxFileLen)}

OneDoneLog == LogFile(<<DoneLine(1, 0)>>)

LogAlphabet ==
    {PlainLine, StampLine(9), StartLine(1), StartLine(2), WDoneLine,
     DoneLine(1, 0), DoneLine(2, 1), WDoneDoneLine(3, 0), BadDoneLine(4, 1),
     StartDoneLine(1, 5, 1)}
AnyLog(n) == {MissingLog, UnreadableLog} \cup {LogFile(ls) : ls \in BoundedSeq(LogAlphabet, n)}

Start ==
    /\ pc = "main"
    /\ progress = NoProgress
    /\ eta = NoEta
    /\ per_worker = [w \in {} |-> {}]
    /\ all_gidx = {}
    /\ w_idx = 0
    /\ lines = << >>
    /\ line_idx = 0
    /\ current_wid = None
    /\ note = FALSE

\* many state files, one short log
Init ==
    /\ n_vertices \in 1..MaxN
    /\ rank \in {0 - 1, 1, 2}
    /\ stride \in 1..MaxStride
    /\ state_files \in [0..(stride - 1) -> CkptChoices]
    /\ \E lg \in {MissingLog, OneDoneLog} :
           logs = [o \in 0..(stride - 1) |-> IF o = 0 THEN lg ELSE MissingLog]
    /\ log_max_lines = DefaultLogMaxLines
    /\ show_worker_breakdown \in BOOLEAN
    /\ Start

\* many logs, few state files
InitLog ==
    /\ n_vertices = 3
    /\ rank = 1
    /\ stride \in 1..2
    /\ \E f \in {MissingFile, TextFile(Str(0))} :
           state_files = [o \in 0..(stride - 1) |-> IF o = 0 THEN f ELSE MissingFile]
    /\ \E l0 \in AnyLog(MaxLogLen), l1 \in AnyLog(MaxRestLogLen) :
           logs = [o \in 0..(stride - 1) |-> IF o = 0 THEN l0 ELSE l1]
    /\ log_max_lines \in (0..MaxLogLen) \cup {DefaultLogMaxLines}
    /\ show_worker_breakdown = TRUE
    /\ Start

\* one state file of any content
InitCkpt ==
    /\ n_vertices \in 2..3
    /\ rank = 1
    /\ stride = 1
    /\ state_files \in [{0} -> AnyCkpt]
    /\ logs \in [{0} -> {MissingLog, UnreadableLog, OneDoneLog}]
    /\ log_max_lines = DefaultLogMaxLines
    /\ show_worker_breakdown \in BOOLEAN
    /\ Start

---------------------------------------------------------------------------
(* main(). *)

\* progress = analyze_job(...)
AnalyzeJob ==
    /\ pc = "main"
    /\ IF CombRaises(n_vertices - 1, (n_vertices - 1) - rank)
       THEN /\ pc' = "error"
            /\ progress' = progress
       ELSE /\ pc' = "analyzed"
            /\ progress' = job_progress(n_vertices, rank, stride, state_files, logs,
                                        log_max_lines)
    /\ UNCHANGED <<inputs, eta, per_worker, all_gidx, w_idx, lines, line_idx,
                   current_wid, note>>

\* print_progress up to the ETA line
PrintProgress ==
    /\ pc = "analyzed"
    /\ eta' = eta_of(progress)
    /\ pc' = IF show_worker_breakdown THEN "breakdown" ELSE "done"
    /\ UNCHANGED <<inputs, progress, per_worker, all_gidx, w_idx, lines, line_idx,
                   current_wid, note>>

\* worker_case_breakdown_from_logs: `for w in progress.workers` opens the next log
NextLog ==
    /\ pc = "breakdown"
    /\ line_idx = Len(lines)
    /\ IF w_idx = Len(progress.workers)
       THEN /\ pc' = "sanity"
            /\ UNCHANGED <<w_idx, lines, line_idx, current_wid>>
       ELSE LET log_file == logs[progress.workers[w_idx + 1].offset]
            IN  /\ pc' = pc
                /\ w_idx' = w_idx + 1
                /\ line_idx' = 0
                /\ IF ~log_file.exists \/ ~log_file.readable
                   THEN /\ lines' = << >>
                        /\ UNCHANGED current_wid
                   ELSE /\ lines' = ReadTail(log_file, log_max_lines)
                        /\ current_wid' = None
    /\ UNCHANGED <<inputs, progress, eta, per_worker, all_gidx, note>>

\* worker_case_breakdown_from_logs: one iteration of `for line in lines`
ReplayLine ==
    /\ pc = "breakdown"
    /\ line_idx < Len(lines)
    /\ LET line == lines[line_idx + 1]
       IN  IF line.wstart # None
           THEN /\ current_wid' = line.wstart
                /\ UNCHANGED <<per_worker, all_gidx>>
           ELSE IF line.done # None
           THEN /\ all_gidx' = all_gidx \cup {line.done[1]}
                /\ per_worker' =
                       setdefault_add(per_worker,
                                      IF current_wid # None THEN current_wid[1] ELSE 0,
                                      line.done[1])
                /\ UNCHANGED current_wid
           ELSE IF line.wdone
           THEN /\ current_wid' = None
                /\ UNCHANGED <<per_worker, all_gidx>>
           ELSE UNCHANGED <<current_wid, per_worker, all_gidx>>
    /\ line_idx' = line_idx + 1
    /\ UNCHANGED <<pc, inputs, progress, eta, w_idx, lines, note>>

SanityCheck_adjusting ==
    /\ pc = "sanity"
    /\ note' = sanity_note(progress, all_gidx)
    /\ progress' =
           IF sanity_note(progress, all_gidx)
           THEN [progress EXCEPT !.workers[1].cases_done = Cardinality(all_gidx)]
           ELSE progress
    /\ pc' = "done"
    /\ UNCHANGED <<inputs, eta, per_worker, all_gidx, w_idx, lines, line_idx,
                   current_wid>>

\* print_progress: the counts and the sanity check after the breakdown
SanityCheck ==
    /\ pc = "sanity"
    /\ note' = sanity_note(progress, all_gidx)
    /\ pc' = "done"
    /\ UNCHANGED <<inputs, progress, eta, per_worker, all_gidx, w_idx, lines, line_idx,
                   current_wid>>

Next ==
    \/ AnalyzeJob
    \/ PrintProgress
    \/ NextLog
    \/ ReplayLine
    \/ SanityCheck

Spec == Init /\ [][Next]_vars
SpecLog == InitLog /\ [][Next]_vars
SpecCkpt == InitCkpt /\ [][Next]_vars

---------------------------------------------------------------------------
(* Properties. *)

Analyzed == pc \notin {"main", "error"}

Workers == progress.workers

\* C1: the per-offset sizes partition the index space: over the offsets
\* 0..stride-1 the sum of cases_for_offset(o, stride, total) is total.
C1_SizesPartitionTotal ==
    Analyzed =>
        SumSeq([i \in 1..Len(Workers) |-> Workers[i].cases_total]) = progress.total_cases

C1_Witness ==
    /\ Analyzed
    /\ stride >= 2
    /\ progress.total_cases >= 3
    /\ progress.total_cases % stride # 0
    /\ \E i, j \in 1..Len(Workers) : Workers[i].cases_total > Workers[j].cases_total

\* C2: cases_done_for_offset is 0 when the checkpoint is absent, below the
\* offset or off the offset's residue class, and k+1 when it is offset + k*stride.
C2_CasesDoneForOffset ==
    Analyzed =>
        \A i \in 1..Len(Workers) :
            LET w == Workers[i]
                lg == w.last_gidx
            IN  /\ lg = None => w.cases_done = 0
                /\ (lg # None /\ lg[1] < w.offset) => w.cases_done = 0
                /\ (lg # None /\ lg[1] >= w.offset /\ (lg[1] - w.offset) % stride # 0)
                       => w.cases_done = 0
                /\ lg # None =>
                       \A k \in 0..Max(lg[1], 0) :
                           lg[1] = w.offset + k * stride => w.cases_done = k + 1

C2_Witness ==
    /\ Analyzed
    /\ \E i \in 1..Len(Workers) : Workers[i].offset >= 1 /\ Workers[i].cases_done >= 2
    /\ \E i \in 1..Len(Workers) :
           /\ Workers[i].last_gidx # None
           /\ Workers[i].last_gidx[1] > Workers[i].offset
           /\ (Workers[i].last_gidx[1] - Workers[i].offset) % stride # 0
           /\ Workers[i].cases_done = 0

InRange == \A i \in 1..Len(Workers) :
               Workers[i].last_gidx = None \/ Workers[i].last_gidx[1] < progress.total_cases

\* C3 as stated: whatever the state files hold, the sum of the offsets'
\* cases_done is at most total_cases.
C3_DoneAtMostTotal == Analyzed => cases_done(progress) <= progress.total_cases

\* C3 amended: when every checkpoint is absent or a gidx below total_cases, the
\* sum of the offsets' cases_done is at most total_cases and cases_remaining is
\* total_cases - cases_done.
C3_DoneAtMostTotalInRange ==
    (Analyzed /\ InRange) =>
        /\ cases_done(progress) <= progress.total_cases
        /\ cases_remaining(progress) = progress.total_cases - cases_done(progress)

C3_Witness ==
    /\ Analyzed
    /\ InRange
    /\ stride >= 2
    /\ progress.total_cases >= 3
    /\ cases_done(progress) = progress.total_cases

\* C5: the attribution pass and the sanity check leave the JobProgress that
\* analyze_job computed from the checkpoints as it is.
C5_CanonicalProgressKept ==
    [][(pc \in {"breakdown", "sanity"}) => (progress' = progress)]_vars

C5_Witness ==
    /\ pc = "done"
    /\ note
    /\ cases_done(progress) > Cardinality(all_gidx)

WhitespaceOnly(t) == \A i \in 1..Len(t) : t[i] = " "

\* the first whitespace-delimited token of a text that is not whitespace only
FirstToken(t) ==
    LET a == CHOOSE i \in 1..Len(t) : t[i] # " " /\ \A j \in 1..(i - 1) : t[j] = " "
        b == CHOOSE i \in a..Len(t) :
                 /\ \A j \in a..i : t[j] # " "
                 /\ (i = Len(t) \/ t[i + 1] = " ")
    IN  SubSeq(t, a, b)

IsIntLiteral(tok) ==
    LET body == IF tok[1] \in {"+", "-"} THEN Tail(tok) ELSE tok
    IN  body # << >> /\ \A i \in 1..Len(body) : body[i] \in DigitChars

NoInformation(f) ==
    \/ ~f.exists
    \/ ~f.readable
    \/ WhitespaceOnly(f.text)
    \/ ~IsIntLiteral(FirstToken(f.text))

C7_NoCasesIsRunning ==
    Analyzed => \A i \in 1..Len(Workers) :
                    Workers[i].cases_total = 0 => Workers[i].status = "running"

\* C7 amended: an offset that owns no cases (offset >= total_cases) is
\* classified not_started when its checkpoint is absent and running when it is
\* present; it is never classified completed.
C7_NoCasesNeverCompleted ==
    Analyzed =>
        \A i \in 1..Len(Workers) :
            /\ Workers[i].cases_total = 0 <=> Workers[i].offset >= progress.total_cases
            /\ Workers[i].cases_total = 0 =>
                   Workers[i].status =
                       IF Workers[i].last_gidx = None THEN "not_started" ELSE "running"

C7_Witness ==
    /\ Analyzed
    /\ \E i \in 1..Len(Workers) :
           /\ Workers[i].cases_total = 0
           /\ Workers[i].cases_done >= 1
           /\ Workers[i].status = "running"
    /\ \E i \in 1..Len(Workers) :
           Workers[i].cases_total = 0 /\ Workers[i].status = "not_started"

\* C9 as stated: whenever the sanity check runs and the log-derived count
\* differs from the checkpoint-derived cases_done, the NOTE is printed.
C9_EveryDifferenceNoted ==
    (pc = "done" /\ show_worker_breakdown /\ Cardinality(all_gidx) # cases_done(progress))
        => note

\* C9 amended: the NOTE is printed exactly when the logs yield at least one
\* completion event and the log-derived count differs from cases_done.
C9_DifferenceNotedWhenLogsHaveEvents ==
    (pc = "done" /\ show_worker_breakdown) =>
        (note <=> (all_gidx # {} /\ Cardinality(all_gidx) # cases_done(progress)))

C9_Witness ==
    /\ pc = "done"
    /\ note
    /\ cases_done(progress) < Cardinality(all_gidx)

\* C10: when the ETA line is printed, the largest per-offset remaining count
\* is at least 1.
C10_EtaMultiplierPositive == eta.shown => eta.max_remaining >= 1

C10_Witness ==
    /\ eta.shown
    /\ \E i \in 1..Len(Workers) : Workers[i].cases_done > Workers[i].cases_total

IsMarker(line) == line.wstart # None \/ line.wdone

\* the index of the most recent marker line before line i of ls, 0 when none
LastMarker(ls, i) ==
    IF \E j \in 1..(i - 1) : IsMarker(ls[j])
    THEN CHOOSE j \in 1..(i - 1) :
             IsMarker(ls[j]) /\ \A k \in (j + 1)..(i - 1) : ~IsMarker(ls[k])
    ELSE 0

\* the bucket of a completion event at line i: the worker of the most recent
\* marker when that is a start line, the unknown id 0 otherwise
ExpectedWid(ls, i) ==
    IF LastMarker(ls, i) = 0 THEN 0
    ELSE IF ls[LastMarker(ls, i)].wstart # None THEN ls[LastMarker(ls, i)].wstart[1]
    ELSE 0

Bucket(pw, wid) == IF wid \in DOMAIN pw THEN pw[wid] ELSE {}

\* C4: replaying a log, a completion event is recorded under worker w exactly
\* when the most recent preceding start/done/failed marker line of that log is
\* "[worker w] start", and under the unknown id 0 when there is no preceding
\* marker or it is a done/failed line; a done/failed line moves nothing.
C4_AttributionFollowsLastMarker ==
    [][(pc = "breakdown" /\ line_idx < Len(lines)) =>
          LET line == lines[line_idx + 1]
              e == ExpectedWid(lines, line_idx + 1)
          IN  /\ (line.done # None /\ line.wstart = None) =>
                     /\ line.done[1] \in Bucket(per_worker', e)
                     /\ \A w \in (DOMAIN per_worker') \ {e} :
                            Bucket(per_worker', w) = Bucket(per_worker, w)
              /\ (line.wdone /\ line.done = None) => per_worker' = per_worker
      ]_vars

\* the last n lines of ls
LastLines(ls, n) == SubSeq(ls, Len(ls) - Min(n, Len(ls)) + 1, Len(ls))

Readable(f) == f.exists /\ f.readable

\* C8: the log readers consider only the last max_lines lines of a log:
\* parse_log_times and get_last_activity return what those lines hold, and the
\* attribution replays those lines only, so at most max_lines completion
\* events come from one log.
C8_OnlyLastMaxLines ==
    /\ Analyzed =>
           \A i \in 1..Len(Workers) :
               LET f == logs[Workers[i].offset]
               IN  Readable(f) =>
                       /\ Len(Workers[i].recent_times) <= log_max_lines
                       /\ Workers[i].last_timestamp =
                              LastStamp(LastLines(f.lines, log_max_lines))
    /\ (pc = "breakdown" /\ w_idx >= 1 /\ Readable(logs[Workers[w_idx].offset])) =>
           lines = LastLines(logs[Workers[w_idx].offset].lines, log_max_lines)

====
